---------------------------- MODULE Spec2Model ----------------------------
(***************************************************************************)
(* Model of the indicator / signal engine of StockAI                       *)
(* (src/technical_analysis.py, class TechnicalAnalyzer) and of the         *)
(* dashboard code that consumes it (src/app.py).                           *)
(*                                                                         *)
(* A price table (a pandas DataFrame) is abstracted to its number of rows  *)
(* and, for every column, the length of the column, the number of leading  *)
(* undefined (NaN) entries and its last two entries.  The analyzer reads   *)
(* nothing else: every signal rule uses .iloc[-1] or .iloc[-2].            *)
(*                                                                         *)
(* The third-party library `ta` computes the indicator series.  What it    *)
(* computes on the bars of the table is the variable `ta`; the rolling     *)
(* windows decide which of these values are defined.                       *)
(***************************************************************************)
EXTENDS Integers, Sequences, FiniteSets, TLC

VARIABLES
    data,      \* the price table object; the caller's table and self.data are this one object
    passed,    \* the table as the caller held it when it built the analyzer
    ta,        \* what the ta library computes on the bars of the table
    signals,   \* the mapping returned by the last get_technical_signals call
    seen,      \* the table as that get_technical_signals call read it
    log,       \* the error lines printed so far
    escaped,   \* the exception that reached the caller ("none" when there is none)
    calls,     \* the number of method calls made on the analyzer
    pc,        \* "start": no analyzer yet; "ready": constructed; "failed": __init__ raised
    provider,  \* what the data providers and the disk answer during this request
    fetch,     \* the last call of a data-fetching function: its name, result, exception
    pager,     \* generate_all_one_pagers: position, documents generated, files saved
    main       \* the dashboard's main(): position, fetched values, exception shown

vars == <<data, passed, ta, signals, seen, log, escaped, calls, pc,
          provider, fetch, pager, main>>

\* the state of the analyzer and the state of the code around it
analyzerVars == <<data, passed, ta, signals, seen, log, escaped, calls, pc>>
appVars == <<provider, fetch, pager, main>>

---------------------------------------------------------------------------
(* Bounds of the model *)

\* close prices, moving averages and bands range over 1..MaxPrice
MaxPrice == 3
\* MACD, signal line and OBV range over -MaxOsc..MaxOsc
MaxOsc == 1
\* bar counts go up to Extra bars past each rolling window
Extra == 1
\* bar counts 0..Few are all tried
Few == 2
\* indicator values within Margin of a threshold are tried
Margin == 1
\* method calls made on one analyzer
MaxCalls == 2
\* amounts in the financial statements range over 0..MaxAmount
MaxAmount == 2

---------------------------------------------------------------------------
(* Program constants *)

SMA_SHORT == 20
SMA_MID_AsShort == SMA_SHORT
SMA_MID == 50
SMA_LONG == 200
RSI_WINDOW == 14
MACD_SLOW == 26
MACD_SIGN == 9
BB_WINDOW == 20
ATR_WINDOW == 14
ADX_WINDOW == 14
CCI_WINDOW == 20
STOCH_WINDOW == 14
STOCH_SMOOTH == 3
RSI_OVERBOUGHT == 70
RSI_OVERSOLD == 30
ADX_STRONG == 25

---------------------------------------------------------------------------
(* Values and series *)

Min(a, b) == IF a < b THEN a ELSE b

\* a floating point value: a number, or NaN (undefined)
Num(x) == [def |-> TRUE, v |-> x]
NaN == [def |-> FALSE, v |-> 0]

\* Python's comparisons on floats: every comparison with NaN is False
Gt(a, b) == a.def /\ b.def /\ a.v > b.v
Lt(a, b) == a.def /\ b.def /\ a.v < b.v

\* a column of n entries of which the first `lead` are NaN
Series(n, lead, pv, lv) ==
    [len  |-> n,
     nans |-> Min(n, lead),
     prev |-> IF n - 2 >= lead THEN pv ELSE NaN,
     last |-> IF n - 1 >= lead THEN lv ELSE NaN]

InputColumns == {"Open", "High", "Low", "Close", "Volume"}

IndicatorColumns ==
    {"SMA_20", "SMA_50", "SMA_200", "EMA_20", "EMA_50", "EMA_200",
     "RSI", "MACD", "MACD_Signal", "MACD_Hist", "Stoch_K", "Stoch_D",
     "BB_Upper", "BB_Middle", "BB_Lower", "ATR", "OBV", "ADI", "ADX", "CCI"}

\* a table: its number of rows and its columns
Table(n, cols, close) ==
    [n   |-> n,
     col |-> [c \in cols |-> IF c = "Volume" THEN Series(n, 0, Num(1), Num(1))
                                             ELSE Series(n, 0, Num(close), Num(close))]]

Columns(t) == DOMAIN t.col

\* self.data[name] = series
SetColumn(t, name, s) ==
    [t EXCEPT !.col = [c \in DOMAIN t.col \cup {name} |-> IF c = name THEN s ELSE t.col[c]]]

---------------------------------------------------------------------------
(* The ta library: the series each indicator class returns (fillna=False)  *)

Prices == 1..MaxPrice
Osc == (0 - MaxOsc)..MaxOsc
Around(x) == (x - Margin)..(x + Margin)

\* rolling(window, min_periods=window): the first window-1 entries are NaN
Lead(w) == w - 1

\* the values ta computes on a table with every rolling window filled:
\* the last two entries of the series; bbAgo is <<lower, upper>> of the
\* Bollinger bands BB_WINDOW bars before the latest bar
TaDefault ==
    [sma20 |-> <<2, 2>>, sma50 |-> <<2, 2>>, sma200 |-> 2,
     rsi |-> Num(50),
     macd |-> <<0, 0>>, sig |-> <<0, 0>>,
     bbu |-> 3, bbl |-> 1,
     bbAgo |-> <<1, 3>>,
     obv |-> <<0, 0>>,
     adx |-> Num(20),
     strict |-> FALSE]

\* the outcomes tried: one indicator group varies, the others stay at TaDefault
TaOutcomes ==
    {[TaDefault EXCEPT !.sma20 = <<p, q>>, !.sma50 = <<r, r>>] :
        p \in Prices, q \in Prices, r \in Prices}
    \cup {[TaDefault EXCEPT !.sma200 = p] : p \in Prices}
    \cup {[TaDefault EXCEPT !.rsi = x] :
        x \in {NaN} \cup {Num(v) : v \in Around(RSI_OVERSOLD) \cup Around(RSI_OVERBOUGHT)}}
    \cup {[TaDefault EXCEPT !.macd = <<p, q>>] : p \in Osc, q \in Osc}
    \cup {[TaDefault EXCEPT !.bbl = p, !.bbu = q] : p \in 1..2, q \in 2..MaxPrice}
    \cup {[TaDefault EXCEPT !.bbAgo = <<p, q>>] : p \in 1..2, q \in 2..MaxPrice}
    \cup {[TaDefault EXCEPT !.obv = <<p, q>>] : p \in Osc, q \in Osc}
    \cup {[TaDefault EXCEPT !.adx = x] :
        x \in {NaN} \cup {Num(v) : v \in Around(ADX_STRONG)}}
    \cup {[TaDefault EXCEPT !.strict = b] : b \in BOOLEAN}

\* the input columns an indicator class reads
Needs(c) ==
    CASE c \in {"Stoch_K", "Stoch_D", "ATR", "ADX", "CCI"} -> {"High", "Low", "Close"}
      [] c = "OBV" -> {"Close", "Volume"}
      [] c = "ADI" -> {"High", "Low", "Close", "Volume"}
      [] OTHER -> {"Close"}

\* AverageTrueRange and ADXIndicator index entry window-1 of an array of the
\* table's length: releases of ta that do not guard this raise on a short table
RaisesOnShort(c, n, o) ==
    /\ o.strict
    /\ \/ c = "ATR" /\ n < ATR_WINDOW
       \/ c = "ADX" /\ n < ADX_WINDOW

\* the series an indicator class returns for a table of n rows
TaSeries(c, n, o) ==
    CASE c = "SMA_20"  -> Series(n, Lead(SMA_SHORT), Num(o.sma20[1]), Num(o.sma20[2]))
      [] c = "SMA_50"  -> Series(n, Lead(SMA_MID), Num(o.sma50[1]), Num(o.sma50[2]))
      [] c = "SMA_200" -> Series(n, Lead(SMA_LONG), Num(o.sma200), Num(o.sma200))
      [] c = "EMA_20"  -> Series(n, Lead(SMA_SHORT), Num(o.sma20[1]), Num(o.sma20[2]))
      [] c = "EMA_50"  -> Series(n, Lead(SMA_MID), Num(o.sma50[1]), Num(o.sma50[2]))
      [] c = "EMA_200" -> Series(n, Lead(SMA_LONG), Num(o.sma200), Num(o.sma200))
      [] c = "RSI"     -> Series(n, Lead(RSI_WINDOW), o.rsi, o.rsi)
      [] c = "MACD"    -> Series(n, Lead(MACD_SLOW), Num(o.macd[1]), Num(o.macd[2]))
      [] c = "MACD_Signal" ->
            Series(n, Lead(MACD_SLOW) + Lead(MACD_SIGN), Num(o.sig[1]), Num(o.sig[2]))
      [] c = "MACD_Hist" ->
            Series(n, Lead(MACD_SLOW) + Lead(MACD_SIGN),
                   Num(o.macd[1] - o.sig[1]), Num(o.macd[2] - o.sig[2]))
      [] c = "Stoch_K" -> Series(n, Lead(STOCH_WINDOW), Num(50), Num(50))
      [] c = "Stoch_D" ->
            Series(n, Lead(STOCH_WINDOW) + Lead(STOCH_SMOOTH), Num(50), Num(50))
      [] c = "BB_Upper"  -> Series(n, Lead(BB_WINDOW), Num(o.bbu), Num(o.bbu))
      [] c = "BB_Middle" -> Series(n, Lead(BB_WINDOW), Num(o.sma20[1]), Num(o.sma20[2]))
      [] c = "BB_Lower"  -> Series(n, Lead(BB_WINDOW), Num(o.bbl), Num(o.bbl))
      [] c = "ATR" -> Series(n, 0, Num(0), Num(0))
      [] c = "OBV" -> Series(n, 0, Num(o.obv[1]), Num(o.obv[2]))
      [] c = "ADI" -> Series(n, 0, Num(0), Num(0))
      [] c = "ADX" -> Series(n, 0, o.adx, o.adx)
      [] c = "CCI" -> Series(n, Lead(CCI_WINDOW), Num(0), Num(0))

---------------------------------------------------------------------------
(* TechnicalAnalyzer: the calculate_* methods                              *)

\* the assignments of each method, in the order of the source
MovingAverageColumns == <<"SMA_20", "SMA_50", "SMA_200", "EMA_20", "EMA_50", "EMA_200">>
MomentumColumns == <<"RSI", "MACD", "MACD_Signal", "MACD_Hist", "Stoch_K", "Stoch_D">>
VolatilityColumns == <<"BB_Upper", "BB_Middle", "BB_Lower", "ATR">>
VolumeColumns == <<"OBV", "ADI">>
TrendColumns == <<"ADX", "CCI">>

\* the exception raised by the statement that assigns column c, "none" if it runs
StatementError(t, o, c) ==
    IF ~(Needs(c) \subseteq Columns(t)) THEN "KeyError"
    ELSE IF RaisesOnShort(c, t.n, o) THEN "IndexError"
    ELSE "none"

\* a try block that leaves the table untouched when a statement raises
RECURSIVE RunStatementsAllOrNone(_, _, _, _)
RunStatementsAllOrNone(t, o, cols, i) ==
    IF i > Len(cols) THEN [t |-> t, exc |-> "none"]
    ELSE LET e == StatementError(t, o, cols[i])
             r == RunStatementsAllOrNone(
                      SetColumn(t, cols[i], TaSeries(cols[i], t.n, o)), o, cols, i + 1)
         IN IF e # "none" THEN [t |-> t, exc |-> e]
            ELSE IF r.exc # "none" THEN [t |-> t, exc |-> r.exc]
            ELSE r

\* the body of a try block: the assignments run in order up to the first that raises
RECURSIVE RunStatements(_, _, _, _)
RunStatements(t, o, cols, i) ==
    IF i > Len(cols) THEN [t |-> t, exc |-> "none"]
    ELSE LET e == StatementError(t, o, cols[i])
         IN IF e # "none" THEN [t |-> t, exc |-> e]
            ELSE RunStatements(SetColumn(t, cols[i], TaSeries(cols[i], t.n, o)), o, cols, i + 1)

\* try: <body> except Exception as e: print(msg + str(e))
\* m is the running call: the table, the printed lines and the exception in flight
ExceptLetsThrough(m, r, msg) ==
    [t |-> r.t, log |-> m.log, exc |-> r.exc]

ExceptPrint(m, r, msg) ==
    IF r.exc = "none" THEN [t |-> r.t, log |-> m.log, exc |-> "none"]
    ELSE [t |-> r.t, log |-> Append(m.log, msg), exc |-> "none"]

\* a method called while an exception is in flight does not run
Method(m, o, cols, msg) ==
    IF m.exc # "none" THEN m
    ELSE ExceptPrint(m, RunStatements(m.t, o, cols, 1), msg)

calculate_moving_averages(m, o) ==
    Method(m, o, MovingAverageColumns, "Error calculating moving averages")
calculate_momentum_indicators(m, o) ==
    Method(m, o, MomentumColumns, "Error calculating momentum indicators")
calculate_volatility_indicators(m, o) ==
    Method(m, o, VolatilityColumns, "Error calculating volatility indicators")
calculate_volume_indicators(m, o) ==
    Method(m, o, VolumeColumns, "Error calculating volume indicators")
calculate_trend_indicators(m, o) ==
    Method(m, o, TrendColumns, "Error calculating trend indicators")

calculate_indicators(m, o) ==
    calculate_trend_indicators(
        calculate_volume_indicators(
            calculate_volatility_indicators(
                calculate_momentum_indicators(
                    calculate_moving_averages(m, o), o), o), o), o)

---------------------------------------------------------------------------
(* TechnicalAnalyzer: the signal rules                                     *)

\* self.data[c].iloc[-k] raises KeyError without the column, IndexError on a short one
ReadError(t, c, k) ==
    IF c \notin Columns(t) THEN "KeyError"
    ELSE IF t.col[c].len < k THEN "IndexError"
    ELSE "none"

\* self.data[c].iloc[-1] and self.data[c].iloc[-2]
Last(t, c) == t.col[c].last
Prev(t, c) == t.col[c].prev

\* the first exception of a sequence of reads <<column, k>>
RECURSIVE FirstError(_, _, _)
FirstError(t, reads, i) ==
    IF i > Len(reads) THEN "none"
    ELSE LET e == ReadError(t, reads[i][1], reads[i][2])
         IN IF e # "none" THEN e ELSE FirstError(t, reads, i + 1)

Raise(e) == [exc |-> e, out |-> <<>>]
Return(sigs) == [exc |-> "none", out |-> sigs]

\* the try body of _get_ma_signals
MaSignalsBody(t) ==
    LET e == FirstError(t, <<<<"Close", 1>>, <<"SMA_20", 1>>, <<"SMA_50", 1>>, <<"SMA_200", 1>>>>, 1)
    IN IF e # "none" THEN Raise(e)
       ELSE LET current_price == Last(t, "Close")
                cross == IF Gt(Last(t, "SMA_20"), Last(t, "SMA_50"))
                             THEN <<"SMA 20 crossed above SMA 50 (Bullish)">>
                         ELSE IF Lt(Last(t, "SMA_20"), Last(t, "SMA_50"))
                             THEN <<"SMA 20 crossed below SMA 50 (Bearish)">>
                         ELSE <<>>
                long == IF Gt(current_price, Last(t, "SMA_200"))
                            THEN <<"Price above SMA 200 (Long-term Bullish)">>
                        ELSE <<"Price below SMA 200 (Long-term Bearish)">>
            IN Return(cross \o long)

\* the try body of _get_rsi_signals, with >= and <= for > and <
RsiSignalsInclusive(t) ==
    LET e == FirstError(t, <<<<"RSI", 1>>>>, 1)
    IN IF e # "none" THEN Raise(e)
       ELSE LET current_rsi == Last(t, "RSI")
            IN IF current_rsi.def /\ current_rsi.v >= RSI_OVERBOUGHT
                   THEN Return(<<"RSI above 70 (Overbought)">>)
               ELSE IF current_rsi.def /\ current_rsi.v <= RSI_OVERSOLD
                   THEN Return(<<"RSI below 30 (Oversold)">>)
               ELSE Return(<<>>)

\* the try body of _get_rsi_signals
RsiSignalsBody(t) ==
    LET e == FirstError(t, <<<<"RSI", 1>>>>, 1)
    IN IF e # "none" THEN Raise(e)
       ELSE LET current_rsi == Last(t, "RSI")
            IN IF Gt(current_rsi, Num(RSI_OVERBOUGHT))
                   THEN Return(<<"RSI above 70 (Overbought)">>)
               ELSE IF Lt(current_rsi, Num(RSI_OVERSOLD))
                   THEN Return(<<"RSI below 30 (Oversold)">>)
               ELSE Return(<<>>)

\* the try body of _get_macd_signals
MacdSignalsBody(t) ==
    LET e == FirstError(t, <<<<"MACD", 1>>, <<"MACD_Signal", 1>>>>, 1)
    IN IF e # "none" THEN Raise(e)
       ELSE IF Gt(Last(t, "MACD"), Last(t, "MACD_Signal"))
           THEN Return(<<"MACD above Signal Line (Bullish)">>)
       ELSE Return(<<"MACD below Signal Line (Bearish)">>)

\* the try body of _get_bb_signals, with >= and <= for > and <
BbSignalsInclusive(t) ==
    LET e == FirstError(t, <<<<"Close", 1>>, <<"BB_Upper", 1>>>>, 1)
    IN IF e # "none" THEN Raise(e)
       ELSE LET current_price == Last(t, "Close")
                u == Last(t, "BB_Upper")
            IN IF current_price.def /\ u.def /\ current_price.v >= u.v
                   THEN Return(<<"Price above Upper Bollinger Band (Overbought)">>)
               ELSE LET e2 == ReadError(t, "BB_Lower", 1)
                    IN IF e2 # "none" THEN Raise(e2)
                       ELSE IF current_price.def /\ Last(t, "BB_Lower").def
                               /\ current_price.v <= Last(t, "BB_Lower").v
                           THEN Return(<<"Price below Lower Bollinger Band (Oversold)">>)
                       ELSE Return(<<>>)

\* the try body of _get_bb_signals; BB_Lower is read only when the first test fails
BbSignalsBody(t) ==
    LET e == FirstError(t, <<<<"Close", 1>>, <<"BB_Upper", 1>>>>, 1)
    IN IF e # "none" THEN Raise(e)
       ELSE LET current_price == Last(t, "Close")
            IN IF Gt(current_price, Last(t, "BB_Upper"))
                   THEN Return(<<"Price above Upper Bollinger Band (Overbought)">>)
               ELSE LET e2 == ReadError(t, "BB_Lower", 1)
                    IN IF e2 # "none" THEN Raise(e2)
                       ELSE IF Lt(current_price, Last(t, "BB_Lower"))
                           THEN Return(<<"Price below Lower Bollinger Band (Oversold)">>)
                       ELSE Return(<<>>)

\* the try body of _get_volume_signals
VolumeSignalsBody(t) ==
    LET e == FirstError(t, <<<<"OBV", 1>>, <<"OBV", 2>>>>, 1)
    IN IF e # "none" THEN Raise(e)
       ELSE IF Gt(Last(t, "OBV"), Prev(t, "OBV"))
           THEN Return(<<"OBV increasing (Bullish Volume)">>)
       ELSE Return(<<"OBV decreasing (Bearish Volume)">>)

\* the try body of _get_trend_signals, with >= for >
TrendSignalsInclusive(t) ==
    LET e == FirstError(t, <<<<"ADX", 1>>>>, 1)
    IN IF e # "none" THEN Raise(e)
       ELSE IF Last(t, "ADX").def /\ Last(t, "ADX").v >= ADX_STRONG
           THEN Return(<<"Strong trend (ADX > 25)">>)
       ELSE Return(<<"Weak trend (ADX < 25)">>)

\* the try body of _get_trend_signals
TrendSignalsBody(t) ==
    LET e == FirstError(t, <<<<"ADX", 1>>>>, 1)
    IN IF e # "none" THEN Raise(e)
       ELSE IF Gt(Last(t, "ADX"), Num(ADX_STRONG))
           THEN Return(<<"Strong trend (ADX > 25)">>)
       ELSE Return(<<"Weak trend (ADX < 25)">>)

\* the six groups of get_technical_signals, in the order the dict literal evaluates them
Groups == <<"Moving Averages", "RSI", "MACD", "Bollinger Bands", "Volume", "Trend">>

GroupBody(g, t) ==
    CASE g = "Moving Averages" -> MaSignalsBody(t)
      [] g = "RSI" -> RsiSignalsBody(t)
      [] g = "MACD" -> MacdSignalsBody(t)
      [] g = "Bollinger Bands" -> BbSignalsBody(t)
      [] g = "Volume" -> VolumeSignalsBody(t)
      [] g = "Trend" -> TrendSignalsBody(t)

GroupMessage(g) ==
    CASE g = "Moving Averages" -> "Error getting MA signals"
      [] g = "RSI" -> "Error getting RSI signals"
      [] g = "MACD" -> "Error getting MACD signals"
      [] g = "Bollinger Bands" -> "Error getting BB signals"
      [] g = "Volume" -> "Error getting volume signals"
      [] g = "Trend" -> "Error getting trend signals"

\* except Exception as e: print(...); return []
RECURSIVE SignalErrors(_, _)
SignalErrors(t, i) ==
    IF i > Len(Groups) THEN <<>>
    ELSE (IF GroupBody(Groups[i], t).exc # "none" THEN <<GroupMessage(Groups[i])>> ELSE <<>>)
         \o SignalErrors(t, i + 1)

\* a mapping that leaves out the groups whose rule raised
get_technical_signals_partial(t) ==
    [g \in {Groups[i] : i \in 1..Len(Groups)} \ {h \in {Groups[i] : i \in 1..Len(Groups)} :
                                                  GroupBody(h, t).exc # "none"} |->
        GroupBody(g, t).out]

get_technical_signals(t) ==
    [g \in {Groups[i] : i \in 1..Len(Groups)} |->
        IF GroupBody(g, t).exc # "none" THEN <<>> ELSE GroupBody(g, t).out]

---------------------------------------------------------------------------
(* Python values of the data-fetching code                                 *)

\* a number n/d (the division is kept unreduced), None, and a text value
Number(n, d) == [kind |-> "num", n |-> n, d |-> d]
Whole(n) == Number(n, 1)
None == [kind |-> "none", n |-> 0, d |-> 1]
Text == [kind |-> "str", n |-> 0, d |-> 1]

EmptyDict == [k \in {} |-> None]
EmptyTable == [n |-> 0, col |-> [c \in {} |-> NaN]]

\* DataFrame.empty
IsEmptyTable(t) == t.n = 0 \/ Columns(t) = {}

\* a / b
Divide(a, b) ==
    IF b = 0 THEN [exc |-> "ZeroDivisionError", val |-> None]
    ELSE [exc |-> "none", val |-> Number(a, b)]

---------------------------------------------------------------------------
(* The providers                                                           *)

Amounts == 0..MaxAmount

\* the one-pagers generate_all_one_pagers writes
OnePagerStyles == {"growth", "value", "core"}

\* a statement payload of Financial Modeling Prep: the request raises, the
\* answer is a JSON object (an error message) or a list of statements
PayloadRaise == [kind |-> "raise", size |-> 0, rows |-> <<>>]
PayloadDict(k) == [kind |-> "dict", size |-> k, rows |-> <<>>]
PayloadList(rows) == [kind |-> "list", size |-> Len(rows), rows |-> rows]

IncomeRows == [revenue : Amounts, netIncome : Amounts]
BalanceRows ==
    [totalAssets : Amounts, totalLiabilities : Amounts,
     totalCurrentAssets : Amounts, totalCurrentLiabilities : Amounts]

IncomePayloads ==
    {PayloadRaise, PayloadDict(1), PayloadDict(2), PayloadList(<<>>)}
    \cup {PayloadList(<<a>>) : a \in IncomeRows}
    \cup {PayloadList(<<a, b>>) : a \in IncomeRows, b \in IncomeRows}

BalancePayloads ==
    {PayloadRaise, PayloadDict(1), PayloadList(<<>>)}
    \cup {PayloadList(<<a>>) : a \in BalanceRows}

\* the daily bars of Alpha Vantage: the request raises, or a table of n rows
DailyRaise == [kind |-> "raise", n |-> 0, close |-> 1]
DailyTable(n, close) == [kind |-> "ok", n |-> n, close |-> close]

\* overview: "raise", "text" (a numeric field holds 'None'), "empty" ({}) or "ok"
\* bars: "raise", "empty" (no bar in the last day) or "ok"
\* disk: the number of files the disk still takes before Document.save raises
ProviderDefault ==
    [overview |-> "ok",
     income   |-> PayloadList(<<[revenue |-> 2, netIncome |-> 1],
                                [revenue |-> 1, netIncome |-> 1]>>),
     balance  |-> PayloadList(<<[totalAssets |-> 2, totalLiabilities |-> 1,
                                 totalCurrentAssets |-> 1, totalCurrentLiabilities |-> 1]>>),
     cash     |-> "ok",
     bars     |-> "ok",
     daily    |-> DailyTable(SMA_LONG + 1, 2),
     disk     |-> Cardinality(OnePagerStyles)]

\* the answers tried: every combination of overview, bars, daily and disk, and
\* each statement payload with the other fields at ProviderDefault
Providers ==
    {[ProviderDefault EXCEPT !.overview = o, !.bars = b, !.daily = d, !.disk = k] :
        o \in {"raise", "text", "empty", "ok"},
        b \in {"raise", "empty", "ok"},
        d \in {DailyRaise} \cup {DailyTable(n, 2) : n \in {0, 1, SMA_LONG + 1}},
        k \in 0..Cardinality(OnePagerStyles)}
    \cup {[ProviderDefault EXCEPT !.income = i] : i \in IncomePayloads}
    \cup {[ProviderDefault EXCEPT !.balance = b] : b \in BalancePayloads}
    \cup {[ProviderDefault EXCEPT !.cash = "raise"]}

---------------------------------------------------------------------------
(* EnhancedDataFetcher                                                     *)

\* the result of a try body or of a function: the value, the exception in
\* flight ("none" when it returned) and the lines printed
Returns(v, out) == [ret |-> v, exc |-> "none", out |-> out]
Raises(e, out) == [ret |-> None, exc |-> e, out |-> out]

\* try: <body> except Exception as e: print(msg); return default
FetchExceptLetsThrough(r, default, msg) ==
    [ret |-> IF r.exc = "none" THEN r.ret ELSE default, exc |-> r.exc, out |-> r.out]

FetchExcept(r, default, msg) ==
    IF r.exc = "none" THEN r
    ELSE [ret |-> default, exc |-> "none", out |-> Append(r.out, msg)]

get_real_time_data(p) ==
    FetchExcept(
        IF p.bars = "raise" THEN Raises("APIError", <<>>)
        ELSE IF p.bars = "empty" THEN Raises("IndexError", <<>>)
        ELSE Returns([k \in {"last_price", "volume", "timestamp"} |->
                         IF k = "timestamp" THEN Text ELSE Whole(2)], <<>>),
        EmptyDict, "Error fetching real-time data")

get_financial_statements(p) ==
    FetchExcept(
        IF p.income.kind = "raise" \/ p.balance.kind = "raise" \/ p.cash = "raise"
            THEN Raises("RequestException", <<>>)
        ELSE Returns([income_statement |-> p.income, balance_sheet |-> p.balance,
                      cash_flow |-> PayloadList(<<>>)], <<>>),
        EmptyDict, "Error fetching financial statements")

ProfileTextKeys == {"name", "sector", "industry", "description", "website", "employees"}
ProfileNumberKeys ==
    {"market_cap", "pe_ratio", "dividend_yield", "beta", "fifty_two_week_high",
     "fifty_two_week_low", "fifty_day_average", "two_hundred_day_average",
     "shares_outstanding"}
ProfileNoneKeys ==
    {"shares_float", "shares_short", "short_ratio", "short_percent_of_float",
     "institution_ownership", "insider_ownership"}

\* float(data.get(key, 0)) raises ValueError on the text 'None'; a missing key gives 0.0
get_company_profile(p) ==
    FetchExcept(
        IF p.overview = "raise" THEN Raises("ValueError", <<>>)
        ELSE IF p.overview = "text" THEN Raises("ValueError", <<>>)
        ELSE Returns([k \in ProfileTextKeys \cup ProfileNumberKeys \cup ProfileNoneKeys |->
                         IF k \in ProfileTextKeys THEN Text
                         ELSE IF k \in ProfileNoneKeys THEN None
                         ELSE IF p.overview = "empty" THEN Whole(0)
                         ELSE Whole(2)], <<>>),
        EmptyDict, "Error fetching company profile")

\* yf is not imported by the module: yf.Ticker raises NameError on every call
get_news(p) ==
    FetchExcept(Raises("NameError", <<>>), <<>>, "Error fetching news")

get_historical_data(p) ==
    FetchExcept(
        IF p.daily.kind = "raise" THEN Raises("ValueError", <<>>)
        ELSE Returns(Table(p.daily.n, InputColumns, p.daily.close), <<>>),
        EmptyTable, "Error fetching historical data")

\* bool(payload): an empty list is false, a JSON object with keys is true
Truthy(payload) == payload.size > 0

\* dict.get(key, default)
Get(d, key, default) == IF key \in DOMAIN d THEN d[key] ELSE default

\* the growth of field f between income_stmt[1] and income_stmt[0]
Growth(income, f) ==
    IF ~(income.size > 1) THEN [exc |-> "none", val |-> Whole(0)]
    ELSE IF income.kind = "dict" THEN [exc |-> "KeyError", val |-> None]
    ELSE Divide(income.rows[1][f] - income.rows[2][f], income.rows[2][f])

MetricsFromProfile ==
    {"pe_ratio", "dividend_yield", "beta", "fifty_two_week_high", "fifty_two_week_low",
     "fifty_day_average", "two_hundred_day_average", "shares_outstanding",
     "shares_float", "shares_short", "short_ratio", "short_percent_of_float",
     "institution_ownership", "insider_ownership"}
MetricsComputed ==
    {"current_price", "market_cap", "revenue_growth", "earnings_growth",
     "debt_to_equity", "current_ratio"}

\* the try body of EnhancedDataFetcher.calculate_valuation_metrics
ValuationBody(p) ==
    LET fin == get_financial_statements(p)
        pro == get_company_profile(p)
        rt == get_real_time_data(p)
        out == fin.out \o pro.out \o rt.out
        income == Get(fin.ret, "income_statement", PayloadList(<<>>))
        balance == Get(fin.ret, "balance_sheet", PayloadList(<<>>))
        rg == IF Truthy(income) THEN Growth(income, "revenue")
              ELSE [exc |-> "none", val |-> Whole(0)]
        eg == IF Truthy(income) THEN Growth(income, "netIncome")
              ELSE [exc |-> "none", val |-> Whole(0)]
        sheet == balance.rows[1]
        de == IF ~Truthy(balance) THEN [exc |-> "none", val |-> Whole(0)]
              ELSE IF balance.kind = "dict" THEN [exc |-> "KeyError", val |-> None]
              ELSE Divide(sheet.totalLiabilities, sheet.totalAssets - sheet.totalLiabilities)
        cr == IF ~Truthy(balance) THEN [exc |-> "none", val |-> Whole(0)]
              ELSE IF balance.kind = "dict" THEN [exc |-> "KeyError", val |-> None]
              ELSE Divide(sheet.totalCurrentAssets, sheet.totalCurrentLiabilities)
    IN IF fin.exc # "none" THEN Raises(fin.exc, out)
       ELSE IF pro.exc # "none" THEN Raises(pro.exc, out)
       ELSE IF rt.exc # "none" THEN Raises(rt.exc, out)
       ELSE IF rg.exc # "none" THEN Raises(rg.exc, out)
       ELSE IF eg.exc # "none" THEN Raises(eg.exc, out)
       ELSE IF de.exc # "none" THEN Raises(de.exc, out)
       ELSE IF cr.exc # "none" THEN Raises(cr.exc, out)
       ELSE Returns(
               [k \in MetricsComputed \cup MetricsFromProfile |->
                   CASE k = "current_price" -> Get(rt.ret, "last_price", Whole(0))
                     [] k = "market_cap" -> Get(pro.ret, "market_cap", Whole(0))
                     [] k = "revenue_growth" -> rg.val
                     [] k = "earnings_growth" -> eg.val
                     [] k = "debt_to_equity" -> de.val
                     [] k = "current_ratio" -> cr.val
                     [] OTHER -> Get(pro.ret, k, Whole(0))],
               out)

calculate_valuation_metrics(p) ==
    FetchExcept(ValuationBody(p), EmptyDict, "Error calculating valuation metrics")

---------------------------------------------------------------------------
(* StockOnePager                                                           *)

OverviewKeys ==
    {"MarketCapitalization", "PERatio", "ForwardPE", "EPS",
     "QuarterlyRevenueGrowthYOY", "QuarterlyEarningsGrowthYOY", "DebtToEquity",
     "CurrentRatio", "QuickRatio", "DividendYield"}

\* the overview as the provider returns it: texts, of which 'None' is no number
Overview(p) ==
    IF p.overview = "empty" THEN EmptyDict
    ELSE [k \in OverviewKeys |->
             IF p.overview = "text" /\ k = "PERatio" THEN Text ELSE Whole(2)]

get_company_info(p) ==
    FetchExcept(
        IF p.overview = "raise" THEN Raises("ValueError", <<>>)
        ELSE Returns(Overview(p), <<>>),
        EmptyDict, "Error fetching company info")

StockOnePager_get_historical_data(p) ==
    FetchExcept(
        IF p.daily.kind = "raise" THEN Raises("ValueError", <<>>)
        ELSE Returns(Table(p.daily.n, InputColumns, p.daily.close), <<>>),
        EmptyTable, "Error fetching historical data")

\* float(self.info.get(key, 0))
Float(info, key) ==
    LET v == Get(info, key, Whole(0))
    IN IF v.kind = "num" THEN [exc |-> "none", val |-> v]
       ELSE [exc |-> "ValueError", val |-> None]

\* float(self.info.get(key, 0)) if self.info.get(key) else 0
FloatIfPresent(info, key) ==
    IF key \in DOMAIN info THEN Float(info, key) ELSE [exc |-> "none", val |-> Whole(0)]

PagerMetricKey ==
    [current_price |-> "", market_cap |-> "MarketCapitalization", pe_ratio |-> "PERatio",
     forward_pe |-> "ForwardPE", eps |-> "EPS",
     revenue_growth |-> "QuarterlyRevenueGrowthYOY",
     earnings_growth |-> "QuarterlyEarningsGrowthYOY",
     debt_to_equity |-> "DebtToEquity", current_ratio |-> "CurrentRatio",
     quick_ratio |-> "QuickRatio", dividend_yield |-> "DividendYield"]

\* StockOnePager.calculate_valuation_metrics on an object holding info and hist
StockOnePager_calculate_valuation_metrics(info, hist) ==
    LET price == IF IsEmptyTable(hist) THEN [exc |-> "none", val |-> Whole(0)]
                 ELSE IF "Close" \notin Columns(hist)
                     THEN [exc |-> "KeyError", val |-> None]
                 ELSE [exc |-> "none", val |-> Whole(Last(hist, "Close").v)]
        field == [k \in DOMAIN PagerMetricKey |->
                     IF k = "current_price" THEN price
                     ELSE IF k \in {"forward_pe", "eps"}
                         THEN FloatIfPresent(info, PagerMetricKey[k])
                     ELSE Float(info, PagerMetricKey[k])]
        failed == {k \in DOMAIN field : field[k].exc # "none"}
    IN FetchExcept(
           IF failed # {} THEN Raises(field[CHOOSE k \in failed : TRUE].exc, <<>>)
           ELSE Returns([k \in DOMAIN field |-> field[k].val], <<>>),
           EmptyDict, "Error calculating valuation metrics")

\* the metrics each generate_<style>_one_pager formats
StyleKeys ==
    [growth |-> {"revenue_growth", "earnings_growth", "forward_pe", "market_cap"},
     value  |-> {"pe_ratio", "dividend_yield", "current_ratio", "debt_to_equity"},
     core   |-> {"current_price", "market_cap", "pe_ratio", "eps", "quick_ratio"}]

\* generate_<style>_one_pager: metrics[key] raises KeyError on a missing key
generate_one_pager(style, info, hist) ==
    LET m == StockOnePager_calculate_valuation_metrics(info, hist)
    IN IF m.exc # "none" THEN Raises(m.exc, m.out)
       ELSE IF ~(StyleKeys[style] \subseteq DOMAIN m.ret) THEN Raises("KeyError", m.out)
       ELSE Returns(style, m.out)

\* save_one_pager: doc.save(filename) raises when the disk takes no more files
save_one_pager(style, files, p) ==
    IF Len(files) >= p.disk THEN Raises("OSError", <<>>)
    ELSE Returns(Append(files, style), <<>>)

\* the statements of generate_all_one_pagers after the constructor
Step(op, style) == [op |-> op, style |-> style]

PagerProgramInterleaved ==
    <<Step("generate", "growth"), Step("save", "growth"),
      Step("generate", "value"), Step("save", "value"),
      Step("generate", "core"), Step("save", "core")>>

PagerProgram ==
    <<Step("generate", "growth"), Step("generate", "value"), Step("generate", "core"),
      Step("save", "growth"), Step("save", "value"), Step("save", "core")>>

---------------------------------------------------------------------------
(* The dashboard                                                           *)

\* the public and private methods class TechnicalAnalyzer defines
AnalyzerMethods ==
    {"__init__", "calculate_indicators", "calculate_moving_averages",
     "calculate_momentum_indicators", "calculate_volatility_indicators",
     "calculate_volume_indicators", "calculate_trend_indicators",
     "get_technical_signals", "_get_ma_signals", "_get_rsi_signals",
     "_get_macd_signals", "_get_bb_signals", "_get_volume_signals",
     "_get_trend_signals"}

\* analyzer.<method>(): an attribute the class lacks raises AttributeError
CallAnalyzer(method) ==
    IF method \in AnalyzerMethods THEN "none" ELSE "AttributeError"

\* the methods main calls on the analyzer, in order
MainAnalyzerCalls == <<"get_all_indicators", "get_signal_summary">>

\* f"{metrics.get(key, 0) * 100:.2f}" and the like: arithmetic on None raises
Arithmetic(metrics, keys) ==
    IF \E k \in keys : Get(metrics, k, Whole(0)).kind # "num" THEN "TypeError" ELSE "none"

KeyMetricKeys ==
    {"current_price", "market_cap", "pe_ratio", "dividend_yield",
     "revenue_growth", "earnings_growth", "debt_to_equity", "current_ratio"}
OwnershipKeys ==
    {"institution_ownership", "insider_ownership", "shares_short",
     "short_percent_of_float"}

---------------------------------------------------------------------------
(* The state machine                                                       *)

NoFetch == [fn |-> "idle", ret |-> None, exc |-> "none", out |-> <<>>]
NoPager == [status |-> "idle", at |-> 0, info |-> EmptyDict, hist |-> EmptyTable,
            docs |-> {}, files |-> <<>>, exc |-> "none"]
NoMain == [pc |-> "idle", profile |-> EmptyDict, metrics |-> EmptyDict, news |-> <<>>,
           technical |-> FALSE, exc |-> "none", at |-> "", files |-> <<>>]

\* no request is being served
AppIdle ==
    /\ provider = ProviderDefault
    /\ fetch = NoFetch
    /\ pager = NoPager
    /\ main = NoMain

Windows ==
    {RSI_WINDOW, SMA_SHORT, MACD_SLOW, MACD_SLOW + MACD_SIGN - 1, SMA_MID, SMA_LONG}

\* the table lengths tried: the shortest ones and those around each window
BarCounts == (0..Few) \cup {w + d : w \in Windows, d \in (0 - 1)..Extra}

\* a well-formed table, a table lacking one input column, and pd.DataFrame()
ColumnSets == {InputColumns} \cup {InputColumns \ {c} : c \in InputColumns} \cup {{}}

NoSignals == [g \in {} |-> <<>>]

Init ==
    /\ \E n \in BarCounts, close \in Prices, cols \in ColumnSets :
          /\ cols = {} => n = 0
          /\ data = Table(n, cols, close)
    /\ ta \in TaOutcomes
    /\ Columns(data) # InputColumns => ta = TaDefault
    /\ passed = data
    /\ signals = NoSignals
    /\ seen = data
    /\ log = <<>>
    /\ escaped = "none"
    /\ calls = 0
    /\ pc = "start"
    /\ AppIdle

\* analyzer = TechnicalAnalyzer(data): self.data = data; self.calculate_indicators()
Construct ==
    /\ pc = "start"
    /\ LET m == calculate_indicators([t |-> data, log |-> log, exc |-> "none"], ta)
       IN /\ data' = m.t
          /\ log' = m.log
          /\ escaped' = m.exc
          /\ pc' = IF m.exc = "none" THEN "ready" ELSE "failed"
    /\ passed' = data
    /\ UNCHANGED <<ta, signals, seen, calls>>
    /\ UNCHANGED appVars

\* analyzer.calculate_indicators() called again on the constructed analyzer
CalculateIndicators ==
    /\ pc = "ready"
    /\ calls < MaxCalls
    /\ escaped = "none"
    /\ LET m == calculate_indicators([t |-> data, log |-> log, exc |-> "none"], ta)
       IN /\ data' = m.t
          /\ log' = m.log
          /\ escaped' = m.exc
    /\ calls' = calls + 1
    /\ UNCHANGED <<passed, ta, signals, seen, pc>>
    /\ UNCHANGED appVars

\* signals = analyzer.get_technical_signals()
GetTechnicalSignals ==
    /\ pc = "ready"
    /\ calls < MaxCalls
    /\ escaped = "none"
    /\ signals' = get_technical_signals(data)
    /\ seen' = data
    /\ log' = log \o SignalErrors(data, 1)
    /\ calls' = calls + 1
    /\ UNCHANGED <<data, passed, ta, escaped, pc>>
    /\ UNCHANGED appVars

Next == Construct \/ CalculateIndicators \/ GetTechnicalSignals

Spec == Init /\ [][Next]_vars

---------------------------------------------------------------------------
(* Vocabulary of the properties                                            *)

\* get_technical_signals has returned
Returned == DOMAIN signals # {}

\* the group g of the returned mapping holds the line msg
Reported(g, msg) ==
    /\ Returned
    /\ \E i \in 1..Len(signals[g]) : signals[g][i] = msg

\* the column c had a latest entry when the signals were computed
Readable(c) == c \in Columns(seen) /\ seen.col[c].len >= 1

\* the latest entry of column c was NaN when the signals were computed
Undefined(c) == Readable(c) /\ ~Last(seen, c).def

Le(a, b) == a.def /\ b.def /\ a.v <= b.v

BullishCross == Reported("Moving Averages", "SMA 20 crossed above SMA 50 (Bullish)")
BearishCross == Reported("Moving Averages", "SMA 20 crossed below SMA 50 (Bearish)")
MacdBullish == Reported("MACD", "MACD above Signal Line (Bullish)")
MacdBearish == Reported("MACD", "MACD below Signal Line (Bearish)")
Overbought == Reported("RSI", "RSI above 70 (Overbought)")
Oversold == Reported("RSI", "RSI below 30 (Oversold)")
AboveUpper == Reported("Bollinger Bands", "Price above Upper Bollinger Band (Overbought)")
BelowLower == Reported("Bollinger Bands", "Price below Lower Bollinger Band (Oversold)")
StrongTrend == Reported("Trend", "Strong trend (ADX > 25)")
WeakTrend == Reported("Trend", "Weak trend (ADX < 25)")
LongTermBullish == Reported("Moving Averages", "Price above SMA 200 (Long-term Bullish)")
LongTermBearish == Reported("Moving Averages", "Price below SMA 200 (Long-term Bearish)")

---------------------------------------------------------------------------
(* C1: the moving-average cross is edge-triggered: a bullish cross is      *)
(* reported for the latest bar only if the faster SMA is above the slower  *)
(* SMA on the latest bar and was at or below it on the previous bar.       *)
(* The code compares the latest bar only, so this fails.                   *)
C1_CrossIsEdgeTriggered ==
    (BullishCross /\ Prev(seen, "SMA_20").def /\ Prev(seen, "SMA_50").def) =>
        /\ Gt(Last(seen, "SMA_20"), Last(seen, "SMA_50"))
        /\ Le(Prev(seen, "SMA_20"), Prev(seen, "SMA_50"))

(* C2: the MACD signal is edge-triggered: bullish (bearish) is reported    *)
(* only when the MACD line is above (below) the signal line on the latest  *)
(* bar and was not above (below) it on the previous bar.  The code         *)
(* compares the latest bar only, so this fails.                            *)
C2_MacdIsEdgeTriggered ==
    (Returned /\ Readable("MACD_Signal") /\ Prev(seen, "MACD_Signal").def) =>
        /\ MacdBullish =>
              /\ Gt(Last(seen, "MACD"), Last(seen, "MACD_Signal"))
              /\ ~Gt(Prev(seen, "MACD"), Prev(seen, "MACD_Signal"))
        /\ MacdBearish =>
              /\ Lt(Last(seen, "MACD"), Last(seen, "MACD_Signal"))
              /\ ~Lt(Prev(seen, "MACD"), Prev(seen, "MACD_Signal"))

(* C3: when the latest value of an indicator a signal group refers to is   *)
(* NaN, the group reports no verdict drawn from it.  The else branches of  *)
(* the code report a verdict, so this fails.                               *)
C3_NoVerdictFromUndefined ==
    /\ (Undefined("SMA_20") \/ Undefined("SMA_50")) => ~BullishCross /\ ~BearishCross
    /\ Undefined("SMA_200") => ~LongTermBullish /\ ~LongTermBearish
    /\ Undefined("RSI") => ~Overbought /\ ~Oversold
    /\ (Undefined("MACD") \/ Undefined("MACD_Signal")) => ~MacdBullish /\ ~MacdBearish
    /\ (Undefined("BB_Upper") \/ Undefined("BB_Lower")) => ~AboveUpper /\ ~BelowLower
    /\ Undefined("ADX") => ~StrongTrend /\ ~WeakTrend

(* C4: after the analyzer is constructed, and after any later call, the    *)
(* table the caller passed in has the columns and values it had before.    *)
(* self.data is the caller's table and the columns are added to it, so     *)
(* this fails.                                                             *)
C4_InputNotMutated ==
    pc = "ready" => data = passed

(* C5: with a required input column missing, the computation fails with an *)
(* error that reaches the caller; with all of them present it never fails. *)
(* Every calculate_* method swallows the exception, so this fails.         *)
C5_MissingColumnFailsFast ==
    pc # "start" =>
        /\ Columns(passed) # InputColumns => escaped # "none"
        /\ Columns(passed) = InputColumns => escaped = "none"

(* C6: for an empty price series no exception escapes the constructor or   *)
(* a later calculate_indicators call, and every indicator column that is   *)
(* produced is an empty series.                                            *)
C6_EmptySeries ==
    (pc # "start" /\ passed.n = 0) =>
        /\ escaped = "none"
        /\ pc = "ready"
        /\ \A c \in Columns(data) : data.col[c].len = 0 /\ ~data.col[c].last.def

C6_Witness ==
    /\ pc = "ready"
    /\ passed.n = 0
    /\ "SMA_20" \in Columns(data)
    /\ "ADX" \notin Columns(data)
    /\ calls > 0

(* C7: overbought is reported iff the latest RSI is above 70, oversold iff *)
(* it is below 30, never both, and neither for an RSI in 30..70 or NaN.    *)
C7_RsiThresholds ==
    (Returned /\ Readable("RSI")) =>
        LET rsi == Last(seen, "RSI")
        IN /\ Overbought <=> (rsi.def /\ rsi.v > RSI_OVERBOUGHT)
           /\ Oversold <=> (rsi.def /\ rsi.v < RSI_OVERSOLD)
           /\ ~(Overbought /\ Oversold)
           /\ (~rsi.def \/ (rsi.v >= RSI_OVERSOLD /\ rsi.v <= RSI_OVERBOUGHT))
                 => signals["RSI"] = <<>>

C7_Witness ==
    /\ Returned
    /\ Readable("RSI")
    /\ Last(seen, "RSI") = Num(RSI_OVERBOUGHT)
    /\ signals["RSI"] = <<>>

(* C8: the snapshot reports, for each of the windows 20, 50 and 200,       *)
(* whether the latest close is above the latest SMA of that window.  The   *)
(* analyzer compares the close with SMA 200 only, so this fails.           *)
C8_AboveEachSma ==
    (Returned /\ Readable("Close") /\ Readable("SMA_200") /\ Last(seen, "SMA_200").def) =>
        /\ Readable("SMA_20") =>
              (Reported("Moving Averages", "Price above SMA 20")
                  <=> Gt(Last(seen, "Close"), Last(seen, "SMA_20")))
        /\ Readable("SMA_50") =>
              (Reported("Moving Averages", "Price above SMA 50")
                  <=> Gt(Last(seen, "Close"), Last(seen, "SMA_50")))
        /\ Readable("SMA_200") =>
              (LongTermBullish <=> Gt(Last(seen, "Close"), Last(seen, "SMA_200")))

(* C9: with a defined latest ADX, the trend is strong iff ADX > 25 and     *)
(* weak otherwise (25 itself is weak), and exactly one of the two is       *)
(* reported.                                                               *)
C9_TrendStrength ==
    (Returned /\ Readable("ADX") /\ Last(seen, "ADX").def) =>
        /\ StrongTrend <=> Last(seen, "ADX").v > ADX_STRONG
        /\ WeakTrend <=> Last(seen, "ADX").v <= ADX_STRONG
        /\ StrongTrend # WeakTrend
        /\ Len(signals["Trend"]) = 1

C9_Witness ==
    /\ Returned
    /\ Readable("ADX")
    /\ Last(seen, "ADX") = Num(ADX_STRONG)
    /\ WeakTrend

(* C10: above_upper is reported iff the latest close is above the latest   *)
(* upper band, below_lower iff it is below the lower band, at most one of  *)
(* them, and none when the close lies within the bands, bounds included.   *)
C10_BollingerBands ==
    (Returned /\ Readable("Close") /\ Readable("BB_Upper") /\ Readable("BB_Lower")) =>
        LET close == Last(seen, "Close")
            upper == Last(seen, "BB_Upper")
            lower == Last(seen, "BB_Lower")
        IN /\ AboveUpper <=> (upper.def /\ close.v > upper.v)
           /\ BelowLower <=> (lower.def /\ close.v < lower.v)
           /\ ~(AboveUpper /\ BelowLower)
           /\ (upper.def /\ lower.def /\ lower.v <= close.v /\ close.v <= upper.v)
                 => signals["Bollinger Bands"] = <<>>

C10_Witness ==
    /\ Returned
    /\ Readable("BB_Upper")
    /\ Last(seen, "BB_Upper").def
    /\ Last(seen, "Close") = Last(seen, "BB_Upper")
    /\ signals["Bollinger Bands"] = <<>>

---------------------------------------------------------------------------
(* C11: the snapshot reports a Bollinger squeeze flag that is true iff the *)
(* band width on the latest bar is smaller than the band width 20 bars     *)
(* earlier.  _get_bb_signals produces no squeeze line, so this fails.      *)
SqueezeReported == Reported("Bollinger Bands", "Bollinger squeeze")

C11_BollingerSqueeze ==
    (Returned /\ Readable("BB_Upper") /\ Readable("BB_Lower") /\ seen.n >= 2 * BB_WINDOW) =>
        (SqueezeReported <=>
            Last(seen, "BB_Upper").v - Last(seen, "BB_Lower").v < ta.bbAgo[2] - ta.bbAgo[1])

(* C12: with fewer than two defined points in a series that a two-bar      *)
(* signal reads (SMA cross, MACD cross, OBV comparison), no bullish or     *)
(* bearish verdict of that signal is reported.  The level comparisons of   *)
(* the code report one from a single point or from NaN, so this fails.     *)
ValidPoints(c) ==
    IF c \in Columns(seen) THEN seen.col[c].len - seen.col[c].nans ELSE 0

C12_TwoPointsNeeded ==
    Returned =>
        /\ (ValidPoints("SMA_20") < 2 \/ ValidPoints("SMA_50") < 2)
              => ~BullishCross /\ ~BearishCross
        /\ (ValidPoints("MACD") < 2 \/ ValidPoints("MACD_Signal") < 2)
              => ~MacdBullish /\ ~MacdBearish
        /\ ValidPoints("OBV") < 2 => signals["Volume"] = <<>>

(* C13: every SMA/EMA 20, 50, 200 and RSI 14 series has the length of the  *)
(* price series; on a shorter series than the window every entry is        *)
(* undefined, on a longer one exactly the first window-1 entries are.      *)
C13_Window(c) ==
    CASE c \in {"SMA_20", "EMA_20"} -> 20
      [] c \in {"SMA_50", "EMA_50"} -> 50
      [] c \in {"SMA_200", "EMA_200"} -> 200
      [] c = "RSI" -> 14

---------------------------------------------------------------------------
(* The caller changes its table after it built the analyzer                *)

\* historical_data.iloc[-1, 'Close'] = p, on the table the analyzer shares.
\* On-balance volume of the changed bar is the previous value minus the
\* bar's volume when the close fell and plus the volume otherwise.
CallerUpdatesClose ==
    /\ pc = "ready"
    /\ escaped = "none"
    /\ {"Close", "Volume"} \subseteq Columns(data)
    /\ data.n >= 2
    /\ \E p \in Prices :
          /\ p # Last(data, "Close").v
          /\ data' = [data EXCEPT !.col["Close"].last = Num(p)]
          /\ ta' = [ta EXCEPT !.obv =
                       <<ta.obv[1],
                         IF p < Prev(data, "Close").v
                             THEN ta.obv[1] - Last(data, "Volume").v
                         ELSE ta.obv[1] + Last(data, "Volume").v>>]
    /\ UNCHANGED <<passed, signals, seen, log, escaped, calls, pc>>
    /\ UNCHANGED appVars

\* tables with every input column on which only on-balance volume varies
InitCaller ==
    /\ Init
    /\ Columns(data) = InputColumns
    /\ ta \in {[TaDefault EXCEPT !.obv = <<p, q>>] : p \in Osc, q \in Osc}

NextCaller == Next \/ CallerUpdatesClose

SpecCaller == InitCaller /\ [][NextCaller]_vars

\* all indicators computed from scratch on the table t
Recomputed(t, o) == calculate_indicators([t |-> t, log |-> <<>>, exc |-> "none"], o).t

C16_SignalsTotal ==
    Returned =>
        /\ DOMAIN signals =
              {"Moving Averages", "RSI", "MACD", "Bollinger Bands", "Volume", "Trend"}
        /\ \A g \in DOMAIN signals :
              /\ signals[g] \in Seq(STRING)
              /\ GroupBody(g, seen).exc # "none" => signals[g] = <<>>
              /\ GroupBody(g, seen).exc = "none" => signals[g] = GroupBody(g, seen).out
        /\ escaped = "none"

C16_Witness ==
    /\ Returned
    /\ "ADX" \notin Columns(seen)
    /\ "Trend" \in DOMAIN signals
    /\ signals["Trend"] = <<>>
    /\ signals["Moving Averages"] # <<>>
    /\ signals["MACD"] # <<>>

(* C19: the five groups run in the order moving averages, momentum,        *)
(* volatility, volume, trend; a failure in one does not stop the later     *)
(* ones, and a failing group keeps the columns assigned before the failing *)
(* statement.  With High missing: RSI and the MACD columns are present,    *)
(* Stoch_K/Stoch_D absent, the Bollinger columns present, ATR absent.      *)
C19_GroupOrder ==
    <<"Error calculating moving averages", "Error calculating momentum indicators",
      "Error calculating volatility indicators", "Error calculating volume indicators",
      "Error calculating trend indicators">>

\* s is t with some entries left out, the order kept
RECURSIVE C19_SubSeq(_, _)
C19_SubSeq(s, t) ==
    IF s = <<>> THEN TRUE
    ELSE IF t = <<>> THEN FALSE
    ELSE IF Head(s) = Head(t) THEN C19_SubSeq(Tail(s), Tail(t))
    ELSE C19_SubSeq(s, Tail(t))

C19_PartialGroups ==
    (pc = "ready" /\ calls = 0) =>
        /\ C19_SubSeq(log, C19_GroupOrder)
        /\ \A c \in IndicatorColumns :
              (Needs(c) \subseteq Columns(passed) /\ ~ta.strict) => c \in Columns(data)
        /\ Columns(passed) = InputColumns \ {"High"} =>
              /\ Columns(data) \cap IndicatorColumns =
                    {"SMA_20", "SMA_50", "SMA_200", "EMA_20", "EMA_50", "EMA_200",
                     "RSI", "MACD", "MACD_Signal", "MACD_Hist",
                     "BB_Upper", "BB_Middle", "BB_Lower", "OBV"}
              /\ log = SubSeq(C19_GroupOrder, 2, 5)
        /\ Columns(passed) = InputColumns \ {"Volume"} =>
              /\ Columns(data) \cap IndicatorColumns = IndicatorColumns \ {"OBV", "ADI"}
              /\ log = <<"Error calculating volume indicators">>

C19_Witness ==
    /\ pc = "ready"
    /\ calls = 0
    /\ Columns(passed) = InputColumns \ {"High"}
    /\ "MACD_Hist" \in Columns(data)
    /\ "Stoch_K" \notin Columns(data)
    /\ "BB_Lower" \in Columns(data)
    /\ "ATR" \notin Columns(data)
    /\ Len(log) = 4

---------------------------------------------------------------------------
(* The data-fetching functions, each called on what the providers answer   *)

AnalyzerIdle ==
    /\ data = EmptyTable
    /\ passed = EmptyTable
    /\ ta = TaDefault
    /\ signals = NoSignals
    /\ seen = EmptyTable
    /\ log = <<>>
    /\ escaped = "none"
    /\ calls = 0
    /\ pc = "start"

InitFetch ==
    /\ AnalyzerIdle
    /\ provider \in Providers
    /\ fetch = NoFetch
    /\ pager = NoPager
    /\ main = NoMain

\* result = <fn>(ticker), as the caller sees it
Call(fn, r) ==
    /\ fetch' = [fn |-> fn, ret |-> r.ret, exc |-> r.exc, out |-> r.out]
    /\ UNCHANGED <<provider, pager, main>>
    /\ UNCHANGED analyzerVars

CallGetRealTimeData == Call("get_real_time_data", get_real_time_data(provider))
CallGetFinancialStatements ==
    Call("get_financial_statements", get_financial_statements(provider))
CallGetCompanyProfile == Call("get_company_profile", get_company_profile(provider))
CallGetNews == Call("get_news", get_news(provider))
CallGetHistoricalData == Call("get_historical_data", get_historical_data(provider))
CallCalculateValuationMetrics ==
    Call("calculate_valuation_metrics", calculate_valuation_metrics(provider))
CallPagerGetCompanyInfo == Call("_get_company_info", get_company_info(provider))
CallPagerGetHistoricalData ==
    Call("_get_historical_data", StockOnePager_get_historical_data(provider))
CallPagerCalculateValuationMetrics ==
    Call("StockOnePager.calculate_valuation_metrics",
         StockOnePager_calculate_valuation_metrics(
             get_company_info(provider).ret,
             StockOnePager_get_historical_data(provider).ret))

NextFetch ==
    \/ CallGetRealTimeData
    \/ CallGetFinancialStatements
    \/ CallGetCompanyProfile
    \/ CallGetNews
    \/ CallGetHistoricalData
    \/ CallCalculateValuationMetrics
    \/ CallPagerGetCompanyInfo
    \/ CallPagerGetHistoricalData
    \/ CallPagerCalculateValuationMetrics

SpecFetch == InitFetch /\ [][NextFetch]_vars

\* the statement payloads were both obtained, and the arithmetic on them fails:
\* a JSON object indexed as a list, or a zero denominator
StatementsFail(p) ==
    /\ p.income.kind # "raise" /\ p.balance.kind # "raise" /\ p.cash # "raise"
    /\ \/ p.income.kind = "dict" /\ p.income.size > 1
       \/ /\ p.income.kind = "list" /\ p.income.size > 1
          /\ (p.income.rows[2].revenue = 0 \/ p.income.rows[2].netIncome = 0)
       \/ p.balance.kind = "dict"
       \/ /\ p.balance.kind = "list" /\ p.balance.size > 0
          /\ \/ p.balance.rows[1].totalAssets = p.balance.rows[1].totalLiabilities
             \/ p.balance.rows[1].totalCurrentLiabilities = 0

\* the call of function fn to its provider, or its processing of the answer, fails
FetchFails(fn, p) ==
    CASE fn = "get_real_time_data" -> p.bars \in {"raise", "empty"}
      [] fn = "get_financial_statements" ->
            p.income.kind = "raise" \/ p.balance.kind = "raise" \/ p.cash = "raise"
      [] fn = "get_company_profile" -> p.overview \in {"raise", "text"}
      [] fn = "get_news" -> TRUE
      [] fn = "get_historical_data" -> p.daily.kind = "raise"
      [] fn = "calculate_valuation_metrics" -> StatementsFail(p)
      [] fn = "_get_company_info" -> p.overview = "raise"
      [] fn = "_get_historical_data" -> p.daily.kind = "raise"
      [] fn = "StockOnePager.calculate_valuation_metrics" -> p.overview = "text"
      [] OTHER -> FALSE

\* {} for the dictionaries, [] for the news, an empty DataFrame for the tables
IsEmptyDefault(fn, ret) ==
    IF fn \in {"get_historical_data", "_get_historical_data"}
        THEN ret.n = 0 /\ DOMAIN ret.col = {}
    ELSE DOMAIN ret = {}

C18_MetricsAreNumbers ==
    fetch.fn = "calculate_valuation_metrics" =>
        \A k \in DOMAIN fetch.ret : fetch.ret[k].kind = "num"

---------------------------------------------------------------------------
(* generate_all_one_pagers                                                 *)

InitPager ==
    /\ AnalyzerIdle
    /\ provider \in Providers
    /\ fetch = NoFetch
    /\ pager = NoPager
    /\ main = NoMain

\* generator = StockOnePager(ticker)
PagerNew ==
    /\ pager.status = "idle"
    /\ pager' = [pager EXCEPT !.status = "running", !.at = 1,
                              !.info = get_company_info(provider).ret,
                              !.hist = StockOnePager_get_historical_data(provider).ret]
    /\ UNCHANGED <<provider, fetch, main>>
    /\ UNCHANGED analyzerVars

\* what the statement after statement i is
After(i) == IF i < Len(PagerProgram) THEN "running" ELSE "done"

\* <style>_doc = generator.generate_<style>_one_pager()
PagerGenerate ==
    /\ pager.status = "running"
    /\ PagerProgram[pager.at].op = "generate"
    /\ LET style == PagerProgram[pager.at].style
           r == generate_one_pager(style, pager.info, pager.hist)
       IN pager' = IF r.exc # "none"
                       THEN [pager EXCEPT !.status = "raised", !.exc = r.exc]
                   ELSE [pager EXCEPT !.docs = @ \cup {style}, !.at = @ + 1,
                                      !.status = After(pager.at)]
    /\ UNCHANGED <<provider, fetch, main>>
    /\ UNCHANGED analyzerVars

\* generator.save_one_pager(<style>_doc, '<style>')
PagerSave ==
    /\ pager.status = "running"
    /\ PagerProgram[pager.at].op = "save"
    /\ LET style == PagerProgram[pager.at].style
           r == save_one_pager(style, pager.files, provider)
       IN pager' = IF r.exc # "none"
                       THEN [pager EXCEPT !.status = "raised", !.exc = r.exc]
                   ELSE [pager EXCEPT !.files = r.ret, !.at = @ + 1,
                                      !.status = After(pager.at)]
    /\ UNCHANGED <<provider, fetch, main>>
    /\ UNCHANGED analyzerVars

NextPager == PagerNew \/ PagerGenerate \/ PagerSave

SpecPager == InitPager /\ [][NextPager]_vars

IsPrefix(a, b) == Len(a) <= Len(b) /\ \A i \in 1..Len(a) : a[i] = b[i]

\* C20: the growth, value and core documents are all generated before any is
\* saved; when generating one fails no file has been written; the files are
\* saved in the order growth, value, core, all three when nothing fails.
C20_GenerateAllThenSave ==
    /\ pager.files # <<>> => pager.docs = OnePagerStyles
    /\ (pager.status = "raised" /\ pager.docs # OnePagerStyles) => pager.files = <<>>
    /\ IsPrefix(pager.files, <<"growth", "value", "core">>)
    /\ pager.status = "done" => pager.files = <<"growth", "value", "core">>

\* calculate_valuation_metrics returned {}: generating the growth document
\* raised KeyError and nothing was saved, on a disk that takes files
C20_Witness ==
    /\ pager.status = "raised"
    /\ pager.exc = "KeyError"
    /\ provider.overview = "text"
    /\ provider.disk > 0
    /\ pager.docs = {}
    /\ pager.files = <<>>

---------------------------------------------------------------------------
(* main() of the dashboard, for a ticker entered                           *)

InitMain ==
    /\ AnalyzerIdle
    /\ provider \in Providers
    /\ fetch = NoFetch
    /\ pager = NoPager
    /\ main = NoMain

\* st.error(f"Error processing ticker ...")
MainError(e, at) == [main EXCEPT !.pc = "error", !.exc = e, !.at = at]

\* profile, metrics, historical_data, news = data_fetcher.<...>(ticker)
MainFetch ==
    /\ main.pc = "idle"
    /\ main' = [main EXCEPT !.pc = "analyze",
                            !.profile = get_company_profile(provider).ret,
                            !.metrics = calculate_valuation_metrics(provider).ret,
                            !.news = get_news(provider).ret]
    /\ data' = get_historical_data(provider).ret
    /\ passed' = data'
    /\ seen' = data'
    /\ UNCHANGED <<ta, signals, log, escaped, calls, pc>>
    /\ UNCHANGED <<provider, fetch, pager>>

\* the first of the calls main makes on the analyzer that raises
FirstRaising(methods) ==
    LET bad == {i \in 1..Len(methods) : CallAnalyzer(methods[i]) # "none"}
    IN IF bad = {} THEN 0 ELSE CHOOSE i \in bad : \A j \in bad : i <= j

\* if not historical_data.empty: analyzer = TechnicalAnalyzer(historical_data);
\* indicators = analyzer.get_all_indicators(); signals = analyzer.get_signal_summary()
MainAnalyze ==
    /\ main.pc = "analyze"
    /\ IF IsEmptyTable(data)
           THEN /\ main' = [main EXCEPT !.pc = "render"]
                /\ UNCHANGED <<data, log, escaped, pc>>
       ELSE LET m == calculate_indicators([t |-> data, log |-> log, exc |-> "none"], ta)
                i == FirstRaising(MainAnalyzerCalls)
            IN /\ data' = m.t
               /\ log' = m.log
               /\ escaped' = m.exc
               /\ pc' = IF m.exc = "none" THEN "ready" ELSE "failed"
               /\ main' = IF m.exc # "none" THEN MainError(m.exc, "TechnicalAnalyzer")
                          ELSE IF i # 0
                              THEN MainError(CallAnalyzer(MainAnalyzerCalls[i]),
                                             MainAnalyzerCalls[i])
                          ELSE [main EXCEPT !.pc = "render"]
    /\ UNCHANGED <<passed, ta, signals, seen, calls>>
    /\ UNCHANGED <<provider, fetch, pager>>

\* the overview and the key metrics; the technical metrics, the charts and the
\* signal lines are rendered for a table that is not empty
MainRender ==
    /\ main.pc = "render"
    /\ main' = IF Arithmetic(main.metrics, KeyMetricKeys) # "none"
                   THEN MainError(Arithmetic(main.metrics, KeyMetricKeys), "Key Metrics")
               ELSE [main EXCEPT !.pc = "ownership", !.technical = ~IsEmptyTable(data)]
    /\ UNCHANGED <<provider, fetch, pager>>
    /\ UNCHANGED analyzerVars

\* the ownership information
MainOwnership ==
    /\ main.pc = "ownership"
    /\ main' = IF Arithmetic(main.metrics, OwnershipKeys) # "none"
                   THEN MainError(Arithmetic(main.metrics, OwnershipKeys),
                                  "Ownership Information")
               ELSE [main EXCEPT !.pc = "news"]
    /\ UNCHANGED <<provider, fetch, pager>>
    /\ UNCHANGED analyzerVars

\* for article in news: ...
MainNews ==
    /\ main.pc = "news"
    /\ main' = IF main.news # <<>> THEN [main EXCEPT !.pc = "buttons", !.at = "articles"]
               ELSE [main EXCEPT !.pc = "buttons"]
    /\ UNCHANGED <<provider, fetch, pager>>
    /\ UNCHANGED analyzerVars

\* the three buttons: the one clicked, if any, generates and saves its one-pager
MainButtons ==
    /\ main.pc = "buttons"
    /\ \E click \in OnePagerStyles \cup {"none"} :
          IF click = "none" THEN main' = [main EXCEPT !.pc = "done"]
          ELSE LET info == get_company_info(provider).ret
                   hist == StockOnePager_get_historical_data(provider).ret
                   doc == generate_one_pager(click, info, hist)
                   saved == save_one_pager(click, <<>>, provider)
               IN main' = IF doc.exc # "none" THEN MainError(doc.exc, click)
                          ELSE IF saved.exc # "none" THEN MainError(saved.exc, click)
                          ELSE [main EXCEPT !.pc = "done", !.files = saved.ret]
    /\ UNCHANGED <<provider, fetch, pager>>
    /\ UNCHANGED analyzerVars

NextMain ==
    \/ MainFetch
    \/ MainAnalyze
    \/ MainRender
    \/ MainOwnership
    \/ MainNews
    \/ MainButtons

SpecMain == InitMain /\ [][NextMain]_vars

\* C17: whenever the fetched historical data is not empty, main gets past the
\* analysis: it does not end in the error branch at the construction of the
\* analyzer or at a call of one of its methods.
C17_AnalysisReachesRendering ==
    (main.pc = "error" /\ ~IsEmptyTable(data)) =>
        main.at \notin {"TechnicalAnalyzer", "get_all_indicators", "get_signal_summary"}

=============================================================================
